---- MODULE Spec2Model ----
(***************************************************************************)
(* Tool execution and retrieval subsystem of the general purpose agent:    *)
(* FileContentExtractionTool, RagTool (with its DocumentCache),            *)
(* DeploymentTool and ImageGenerationTool, MCPTool, and the application    *)
(* (GeneralPurposeAgentApplication) that creates the tools.                *)
(*                                                                         *)
(* Representation of strings.  A text handled by the file tool is a record *)
(* [kind, from, to, page, total]:                                          *)
(*   kind = "doc"      characters [from, to) of the extracted document     *)
(*   kind = "page"     characters [from, to) of the text of kind `of`      *)
(*                     followed by "\n\n**Page #page. Total pages: total**"*)
(*   kind = "nopage"   "Error: Page {page} does not exist. Total pages:    *)
(*                     {total}"                                            *)
(*   kind = "notfound" characters [from, to) of                            *)
(*                     "Error: File content not found."                    *)
(* Identifiers (conversation ids, file urls, cache keys) and streamed text *)
(* are sequences of characters.                                            *)
(***************************************************************************)
EXTENDS Integers, Sequences, FiniteSets, TLC

VARIABLES
    document_cache, \* the DocumentCache of each RagTool (by the _create_tools
                  \* run that made it): cache key -> (index, chunks)
    rc,           \* the RagTool._execute calls, by call slot (n: the increments
                  \* consumed from the stream that is open)
    dt,           \* the ImageGenerationTool._execute call
    mt,           \* the MCPTool._execute call
    app,          \* GeneralPurposeAgentApplication: self.tools
    rq,           \* the chat_completion requests, by request slot
    fc_pc,        \* FileContentExtractionTool._execute: "idle" | "returned" | "raised"
    fc_args,      \* the tool call's argument payload
    fc_extracted, \* what DialFileContentExtractor.extract_text answered
    fc_stage,     \* the call's stage (transcript sink), in write order
    fc_result     \* the value returned by _execute

fcVars == <<fc_pc, fc_args, fc_extracted, fc_stage, fc_result>>

ragVars == <<document_cache, rc>>

appVars == <<app, rq>>
vars == <<fcVars, ragVars, dt, mt, appVars>>

Min(a, b) == IF a < b THEN a ELSE b

(***************************************************************************)
(* Bounds of the model.                                                    *)
(***************************************************************************)
MaxPages == 3         \* documents of up to MaxPages full pages (and a bit)
MaxChunks == 4        \* the longest document has MaxChunks chunks
MaxIncrements == 2    \* increments of one downstream response stream
MaxCacheEntries == 1  \* capacity of the DocumentCache
MaxAttachments == 1   \* attachments of one increment
MaxIdLen == 2         \* length of the identifiers the cache key is checked on
MaxRequests == 3      \* chat_completion requests of one process
MaxMcpTools == 1      \* tools the MCP server lists

(***************************************************************************)
(* FileContentExtractionTool                                               *)
(***************************************************************************)
page_size == 10000

NoText == [kind |-> "none", from |-> 0, to |-> 0, page |-> 0, total |-> 0]
DocText(L) == [kind |-> "doc", from |-> 0, to |-> L, page |-> 0, total |-> 0]
\* len("Error: File content not found.")
ErrNotFoundLen == 30
ErrNotFound ==
    [kind |-> "notfound", from |-> 0, to |-> ErrNotFoundLen, page |-> 0, total |-> 0]
ErrNoPage(page, total) ==
    [kind |-> "nopage", from |-> 0, to |-> 0, page |-> page, total |-> total]
PageNo(page) == [kind |-> "num", from |-> 0, to |-> 0, page |-> page, total |-> 0]
UrlText(url) == [kind |-> "url", from |-> 0, to |-> 0, page |-> 0, total |-> 0, url |-> url]
PageText(body, page, total) ==
    [kind |-> "page", of |-> body.kind, from |-> body.from, to |-> body.to,
     page |-> page, total |-> total]

\* len(content)
StrLen(s) == s.to - s.from

\* not content: None and the empty string are both falsy
Falsy(s) == s.kind = "none" \/ (s.kind = "doc" /\ s.to = s.from)

\* content[start_index:end_index] for 0 <= start_index <= end_index
Slice(s, start_index, end_index) ==
    [s EXCEPT !.from = Min(s.from + start_index, s.to),
              !.to = Min(s.from + end_index, s.to)]

total_pages(content) == (StrLen(content) + page_size - 1) \div page_size

\* lines 87-110 of _execute: the content returned for the extracted text and
\* the requested page.  Lines 100-110 are indented under the test of line 87
\* (the comment lines between do not end the block), so the page arithmetic
\* is applied to the "not found" text only; a non-empty content is returned
\* as extracted.
Paginate(extracted, page) ==
    IF Falsy(extracted)
    THEN LET content == ErrNotFound
         IN  IF page < 1
             THEN content   \* page = 1 is assigned, the content is not sliced
             ELSE IF page > total_pages(content)
                  THEN ErrNoPage(page, total_pages(content))
                  ELSE LET start_index == (page - 1) * page_size
                           end_index == start_index + page_size
                       IN  PageText(Slice(content, start_index, end_index),
                                    page, total_pages(content))
    ELSE extracted

\* The argument payloads: js = FALSE is a payload json.loads rejects; page is
\* the JSON value under "page" (t = "absent": no such key).
IntPage(n) == [t |-> "int", n |-> n]
PageValues ==
    {IntPage(n) : n \in -1 .. MaxPages + 2}
        \cup {[t |-> x, n |-> 0] : x \in {"absent", "str", "null"}}
FileUrls == {<<"a">>, <<"b">>}
FileArgs == [js : BOOLEAN, file_url : FileUrls, page : PageValues]

\* arguments.get("page", 1)
PageArg(args) == IF args.page.t = "absent" THEN IntPage(1) ELSE args.page

\* the lengths of the extracted documents
DocLengths ==
    {n \in {k * page_size + d : k \in 0 .. MaxPages, d \in {-1, 0, 1, 5000}} : n >= 0}
Extractions == {NoText} \cup {DocText(L) : L \in DocLengths}

Wr(t, v) == [t |-> t, v |-> v]

\* extract_text was not called
NotExtracted == [kind |-> "uncalled", from |-> 0, to |-> 0, page |-> 0, total |-> 0]

\* _execute, from the call to its return or raise (it has no suspension
\* point); fc_extracted is what extract_text answered, if it was called
FileExecute(args, extracted) ==
    /\ UNCHANGED <<ragVars, dt, mt, appVars>>
    /\ fc_args' = args
    /\ fc_extracted' = IF args.js /\ PageArg(args).t = "int"
                       THEN extracted
                       ELSE NotExtracted
    /\ IF ~args.js
       THEN \* json.loads raises
            /\ fc_pc' = "raised"
            /\ fc_stage' = <<>>
            /\ fc_result' = NoText
       ELSE LET page == PageArg(args)
                head == <<Wr("request_arguments", NoText),
                          Wr("file_url", UrlText(args.file_url))>>
            IN  IF page.t # "int"
                THEN \* page > 1 raises TypeError
                     /\ fc_pc' = "raised"
                     /\ fc_stage' = head
                     /\ fc_result' = NoText
                ELSE LET content == Paginate(extracted, page.n)
                     IN  /\ fc_pc' = "returned"
                         /\ fc_stage' =
                              head
                              \o (IF page.n > 1
                                  THEN <<Wr("page", PageNo(page.n))>>
                                  ELSE <<>>)
                              \o <<Wr("response", NoText), Wr("content", content)>>
                         /\ fc_result' = content

FileCall ==
    \E args \in FileArgs, extracted \in Extractions : FileExecute(args, extracted)

\* the calls with the given payloads and extractor answers
FileNext(payloads, extractions) ==
    \E args \in payloads, extracted \in extractions : FileExecute(args, extracted)


(***************************************************************************)
(* RagTool and the DocumentCache                                           *)
(*                                                                         *)
(* An extracted text is a sequence of paragraphs separated by "\n\n", each *)
(* paragraph either blank (0) or a paragraph of more than 250 and at most  *)
(* 500 characters (its number): the text splitter then yields one chunk    *)
(* per non-blank paragraph.  A vector is a pair of integers.               *)
(* DocumentCache (task/tools/rag/document_cache.py) is not among the       *)
(* sources; its get, set and eviction follow section 4.3 of the design.    *)
(***************************************************************************)
IdChars == {"a", "_"}
Ids(n) == UNION {[1 .. m -> IdChars] : m \in 1 .. n}
ConvIds == {<<"a">>, <<"a", "_">>}
RagUrls == {<<"a">>, <<"_", "a">>}
Requests == {2, 3}

NoneText == [kind |-> "none", paras |-> <<>>]
Text(paras) == [kind |-> "text", paras |-> paras]
\* n paragraphs, with a blank one after the first when n > 1
Paragraphs(n) ==
    IF n = 1 THEN <<1>> ELSE <<1, 0>> \o [i \in 1 .. n - 1 |-> i + 1]
RagTexts ==
    {NoneText, Text(<<>>), Text(<<0>>)} \cup {Text(Paragraphs(n)) : n \in 1 .. MaxChunks}

\* js = FALSE is a payload json.loads rejects: it has no request and no url;
\* self is the RagTool the call is made on (the one of the first tool set)
RagParams ==
    [self : {1}, js : {TRUE}, conversation_id : ConvIds, file_url : RagUrls,
     request : Requests]
        \cup [self : {1}, js : {FALSE}, conversation_id : ConvIds, file_url : {<<>>},
              request : {0}]

\* f"{tool_call_params.conversation_id}_{file_url}"
cache_document_key_url_only(conversation_id, file_url) == file_url

cache_document_key(conversation_id, file_url) ==
    conversation_id \o <<"_">> \o file_url

\* not text_content, testing for None only
NoTextContent_none_only(text) == text.kind = "none"

\* not text_content
NoTextContent(text) == text.kind = "none" \/ text.paras = <<>>

\* self.text_splitter.split_text(text_content)
split_text(text) == SelectSeq(text.paras, LAMBDA p : p # 0)

\* self.model.encode of one text
encode(t) == <<t % 3, t \div 3>>

\* faiss.IndexFlatL2(384)
IndexDim == 384
IndexFlatL2 == [d |-> IndexDim, xb |-> <<>>]

\* index.add(vectors)
IndexAdd(index, vectors) == [index EXCEPT !.xb = @ \o vectors]

\* the index of one cache entry is filled in the reverse order of the chunks
BuildIndex_reversed(chunks) ==
    LET embeddings == [i \in 1 .. Len(chunks) |->
                          encode(chunks[Len(chunks) + 1 - i])]
    IN  IndexAdd(IndexFlatL2, embeddings)

\* embeddings = model.encode(chunks); index = IndexFlatL2(384); index.add(...)
BuildIndex(chunks) ==
    LET embeddings == [i \in 1 .. Len(chunks) |-> encode(chunks[i])]
    IN  IndexAdd(IndexFlatL2, embeddings)

L2(u, v) == (u[1] - v[1]) * (u[1] - v[1]) + (u[2] - v[2]) * (u[2] - v[2])

\* index.search(query, k): the labels (0-based positions) of the k nearest
\* vectors by increasing distance, -1 where the index has no more vectors
RECURSIVE Nearest(_, _, _, _)
Nearest(xb, q, k, taken) ==
    IF k = 0 THEN <<>>
    ELSE LET cand == (1 .. Len(xb)) \ taken
         IN  IF cand = {}
             THEN <<-1>> \o Nearest(xb, q, k - 1, taken)
             ELSE LET best == CHOOSE i \in cand : \A j \in cand :
                                  \/ L2(xb[i], q) < L2(xb[j], q)
                                  \/ L2(xb[i], q) = L2(xb[j], q) /\ i <= j
                  IN  <<best - 1>> \o Nearest(xb, q, k - 1, taken \cup {best})

IndexSearch(index, q, k) == Nearest(index.xb, q, k, {})

\* list[idx] of Python, for -len(list) <= idx < len(list)
PyIndex(list, idx) == IF idx < 0 THEN list[Len(list) + idx + 1] ELSE list[idx + 1]

\* the number of neighbours asked for
SearchK == 3

\* steps 11 to 13: the chunks retrieved for the request
Retrieve(index, chunks, request) ==
    LET indices == IndexSearch(index, encode(request), SearchK)
    IN  [i \in 1 .. Len(indices) |-> PyIndex(chunks, indices[i])]

\* __augmentation: the chunks, numbered from 1 in this order, and the question
augmentation(request, chunks) == [chunks |-> chunks, request |-> request]

\* DocumentCache.get: the entry as a one-element sequence, or <<>> (None)
DocumentCache_get(self, key) ==
    IF key \in DOMAIN document_cache[self]
    THEN <<document_cache[self][key]>> ELSE <<>>

\* DocumentCache.set: the caches that can result; a full cache loses one entry
DocumentCache_set(self, key, entry) ==
    LET old == document_cache[self]
        put(cache) == [k \in DOMAIN cache \cup {key} |->
                          IF k = key THEN entry ELSE cache[k]]
        drop(k0) == [k \in DOMAIN old \ {k0} |-> old[k]]
    IN  IF key \in DOMAIN old \/ Cardinality(DOMAIN old) < MaxCacheEntries
        THEN {put(old)}
        ELSE {put(drop(k0)) : k0 \in DOMAIN old}

\* if cached_data: with the reuse of a cached entry switched off
CacheHit_never(cached_data) == FALSE

\* if cached_data:
CacheHit(cached_data) == cached_data # <<>>

EmptyIndex == [d |-> 0, xb |-> <<>>]
NoPrompt == [chunks |-> <<>>, request |-> 0]
RagIdle ==
    [pc |-> "idle",
     params |-> [self |-> 1, js |-> TRUE, conversation_id |-> <<"a">>,
                 file_url |-> <<"a">>, request |-> 2],
     key |-> <<>>,
     hit |-> FALSE, read_by |-> <<>>, text |-> NoneText, index |-> EmptyIndex, chunks |-> <<>>, retrieved |-> <<>>,
     prompt |-> NoPrompt, ops |-> <<>>, stage |-> <<>>, n |-> 0,
     response_content |-> <<>>, result |-> <<>>]

RagStageHead == <<"request_arguments", "request", "file_url">>

\* _execute from the call to its first suspension point (the downstream
\* request), or to its return or raise before it
RagStart(c, p, text) ==
    /\ rc[c].pc \in {"idle", "returned", "raised"}
    \* text is the extractor's answer; the extractor is asked on a miss only
    /\ (~p.js \/ CacheHit(DocumentCache_get(p.self,
                                             cache_document_key(p.conversation_id,
                                                                p.file_url))))
          => text = NoneText
    /\ UNCHANGED <<fcVars, dt, mt, appVars>>
    /\ LET call == [RagIdle EXCEPT !.params = p]
           key == cache_document_key(p.conversation_id, p.file_url)
           cached_data == DocumentCache_get(p.self, key)
           chunks == split_text(text)
           search(index, chs, ops, stage) ==
               LET retrieved == Retrieve(index, chs, p.request)
               IN  [call EXCEPT
                      !.pc = "generate", !.key = key,
                      !.hit = CacheHit(cached_data),
                      !.read_by = IF CacheHit(cached_data)
                                  THEN cached_data[1].by ELSE <<>>,
                      !.text = text,
                      !.index = index, !.chunks = chs,
                      !.retrieved = retrieved,
                      !.prompt = augmentation(p.request, retrieved),
                      !.ops = ops \o <<"encode_request", "search", "create">>,
                      !.stage = stage \o <<"rag_request", "prompt", "response">>]
       IN  IF ~p.js
           THEN \* json.loads raises
                /\ rc' = [rc EXCEPT ![c] = [call EXCEPT !.pc = "raised"]]
                /\ UNCHANGED document_cache
           ELSE IF CacheHit(cached_data)
           THEN /\ rc' = [rc EXCEPT ![c] =
                            search(cached_data[1].index, cached_data[1].chunks,
                                   <<"get">>, RagStageHead)]
                /\ UNCHANGED document_cache
           ELSE IF NoTextContent(text)
           THEN /\ rc' = [rc EXCEPT ![c] =
                            [call EXCEPT
                               !.pc = "returned", !.key = key, !.text = text,
                               !.ops = <<"get", "extract">>,
                               !.stage = RagStageHead \o <<"no_text">>,
                               !.result = <<"Error: File content not found.">>]]
                /\ UNCHANGED document_cache
           ELSE IF chunks = <<>>
           THEN \* index.add of an array without rows raises
                /\ rc' = [rc EXCEPT ![c] =
                            [call EXCEPT
                               !.pc = "raised", !.key = key, !.text = text,
                               !.chunks = chunks,
                               !.ops = <<"get", "extract", "split", "encode_chunks">>,
                               !.stage = RagStageHead]]
                /\ UNCHANGED document_cache
           ELSE LET index == BuildIndex(chunks)
                    entry == [index |-> index, chunks |-> chunks,
                              by |-> <<p.conversation_id, p.file_url>>]
                IN  /\ \E cache \in DocumentCache_set(p.self, key, entry) :
                          document_cache' = [document_cache EXCEPT ![p.self] = cache]
                    /\ rc' = [rc EXCEPT ![c] =
                                search(index, chunks,
                                       <<"get", "extract", "split", "encode_chunks",
                                         "index_add", "set">>,
                                       RagStageHead)]

\* the increments of the downstream stream: without a choice, with a delta
\* without content, with content
RagIncrements ==
    {[choices |-> FALSE, content |-> <<>>], [choices |-> TRUE, content |-> <<>>],
     [choices |-> TRUE, content |-> <<"x">>]}

\* one turn of the async for over the response stream
RagChunk(c, chunk, limit) ==
    /\ rc[c].pc = "generate"
    /\ rc[c].n < limit
    /\ rc' = [rc EXCEPT
                ![c].n = @ + 1,
                ![c].stage = IF chunk.choices /\ chunk.content # <<>>
                             THEN @ \o <<chunk.content>> ELSE @,
                ![c].response_content =
                    IF chunk.choices /\ chunk.content # <<>>
                    THEN @ \o chunk.content ELSE @]
    /\ UNCHANGED <<document_cache, fcVars, dt, mt, appVars>>

\* the stream ends: _execute returns the collected content
RagReturn(c) ==
    /\ rc[c].pc = "generate"
    /\ rc' = [rc EXCEPT ![c].pc = "returned", ![c].n = 0,
                        ![c].result = rc[c].response_content]
    /\ UNCHANGED <<document_cache, fcVars, dt, mt, appVars>>

\* the downstream request or its stream fails: the error propagates
RagFail(c) ==
    /\ rc[c].pc = "generate"
    /\ rc' = [rc EXCEPT ![c].pc = "raised", ![c].n = 0]
    /\ UNCHANGED <<document_cache, fcVars, dt, mt, appVars>>

\* the cache drops an entry (capacity or age)
CacheEvict ==
    /\ \E self \in DOMAIN document_cache :
          \E k0 \in DOMAIN document_cache[self] :
             document_cache' =
                 [document_cache EXCEPT
                     ![self] = [k \in DOMAIN @ \ {k0} |-> @[k]]]
    /\ UNCHANGED <<rc, fcVars, dt, mt, appVars>>

RagNext(calls, params, texts, increments, limit) ==
    \/ \E c \in calls, p \in params, text \in texts : RagStart(c, p, text)
    \/ \E c \in calls, chunk \in increments : RagChunk(c, chunk, limit)
    \/ \E c \in calls : RagReturn(c)
    \/ \E c \in calls : RagFail(c)
    \/ CacheEvict

(***************************************************************************)
(* DeploymentTool and ImageGenerationTool                                  *)
(*                                                                         *)
(* The arguments are a dictionary: a function from its keys to values.     *)
(***************************************************************************)
ArgDicts ==
    {<<>>, [prompt |-> "a cat"], [size |-> "1024x1024"],
     [prompt |-> "a cat", size |-> "1024x1024"]}
DeployParams == [js : BOOLEAN, arguments : ArgDicts, id : {"call_1", "call_2"}]

\* arguments.get("prompt")
GetPrompt(arguments) ==
    IF "prompt" \in DOMAIN arguments THEN arguments["prompt"] ELSE "None"

\* the arguments with nothing removed
PopPrompt_nothing(arguments) == arguments

\* arguments.pop("prompt", None)
PopPrompt(arguments) == [k \in DOMAIN arguments \ {"prompt"} |-> arguments[k]]

\* the request of client.chat.completions.create for ImageGenerationTool
DeployRequest(arguments) ==
    [messages |-> <<[role |-> "user", content |-> GetPrompt(arguments)]>>,
     stream |-> TRUE,
     deployment_name |-> "dall-e-3",
     configuration |-> PopPrompt(arguments)]

NoRequest ==
    [messages |-> <<>>, stream |-> FALSE, deployment_name |-> "",
     configuration |-> <<>>]

Attachments ==
    {[type |-> "image/png", url |-> "files/a.png"],
     [type |-> "image/jpeg", url |-> "files/b.jpg"],
     [type |-> "image/gif", url |-> "files/c.gif"]}
NoAttachment == [type |-> "", url |-> ""]

\* the increments of the stream: choices = FALSE is a chunk without choices
\* or without a delta; content <<>> is no content; attachments <<>> is no
\* custom content or an empty attachment list
DeployIncrements ==
    {[choices |-> FALSE, content |-> <<>>, attachments |-> <<>>]}
        \cup [choices : {TRUE}, content : {<<>>, <<"x">>, <<"y">>},
              attachments : UNION {[1 .. m -> Attachments] : m \in 0 .. MaxAttachments}]

StageContent(text) == [t |-> "content", text |-> text, attachment |-> NoAttachment]
StageAttachment(a) == [t |-> "attachment", text |-> <<>>, attachment |-> a]

NoMessage ==
    [role |-> "", content |-> <<>>, attachments |-> <<>>, tool_call_id |-> ""]
DeployIdle ==
    [pc |-> "idle", params |-> [js |-> TRUE, arguments |-> <<>>, id |-> "call_1"],
     request |-> NoRequest, n |-> 0, content |-> <<>>, attachments |-> <<>>,
     stage |-> <<>>, choice |-> <<>>, super_message |-> NoMessage,
     message |-> NoMessage]

\* DeploymentTool._execute up to the await of the downstream request
DeployStart(p) ==
    /\ dt.pc \in {"idle", "returned", "raised"}
    /\ ~p.js => p.arguments = <<>>    \* a payload that does not parse has no keys
    /\ UNCHANGED <<fcVars, ragVars, mt, appVars>>
    /\ dt' = IF ~p.js
             THEN [DeployIdle EXCEPT !.pc = "raised", !.params = p]
             ELSE [DeployIdle EXCEPT !.pc = "streaming", !.params = p,
                                     !.request = DeployRequest(p.arguments)]

\* one turn of the async for over the response stream
DeployChunk(chunk, limit) ==
    /\ dt.pc = "streaming"
    /\ dt.n < limit
    /\ UNCHANGED <<fcVars, ragVars, mt, appVars>>
    /\ dt' =
         IF ~chunk.choices
         THEN [dt EXCEPT !.n = @ + 1]
         ELSE LET text == IF chunk.content # <<>>
                          THEN <<StageContent(chunk.content)>> ELSE <<>>
              IN  [dt EXCEPT
                     !.n = @ + 1,
                     !.content = @ \o chunk.content,
                     !.attachments = @ \o chunk.attachments,
                     !.stage = @ \o text \o
                               [i \in 1 .. Len(chunk.attachments) |->
                                   StageAttachment(chunk.attachments[i])]]

\* a failure that also takes back what the call wrote to the stage
DeployFail_rollback ==
    /\ dt.pc = "streaming"
    /\ UNCHANGED <<fcVars, ragVars, mt, appVars>>
    /\ dt' = [dt EXCEPT !.pc = "raised", !.n = 0, !.stage = <<>>]

\* the downstream request or its stream fails: the error propagates
DeployFail ==
    /\ dt.pc = "streaming"
    /\ UNCHANGED <<fcVars, ragVars, mt, appVars>>
    /\ dt' = [dt EXCEPT !.pc = "raised", !.n = 0]

\* the Message with the id of the first tool call instead of this one's
DeployMessage_first_id(call) ==
    [role |-> "tool", content |-> call.content, attachments |-> call.attachments,
     tool_call_id |-> "call_1"]

\* step 7 of DeploymentTool._execute: the Message it returns
DeployMessage(call) ==
    [role |-> "tool", content |-> call.content, attachments |-> call.attachments,
     tool_call_id |-> call.params.id]

\* attachment.type in ["image/png", "image/jpeg"], taken as any image type
IsInlineImage_any_image(type) == type \in {"image/png", "image/jpeg", "image/gif"}

\* attachment.type in ["image/png", "image/jpeg"]
IsInlineImage(type) == type \in {"image/png", "image/jpeg"}

\* f"\n\r![image]({attachment.url})\n\r"
ImageRef(attachment) == <<"![image](", attachment.url, ")">>

\* steps 2 and 3 of ImageGenerationTool._execute: what is appended to the choice
ChoiceWrites(message) ==
    LET images == SelectSeq(message.attachments, LAMBDA a : IsInlineImage(a.type))
    IN  [i \in 1 .. Len(images) |-> ImageRef(images[i])]

Confirmation ==
    <<"The image has been successfully generated according to request and shown to user!">>

\* step 4 of ImageGenerationTool._execute, inside the test for attachments
ImageMessage(message) ==
    IF message.attachments # <<>> /\ message.content = <<>>
    THEN [message EXCEPT !.content = Confirmation]
    ELSE message

\* the stream ends: DeploymentTool._execute returns its Message
\* (super_message) and ImageGenerationTool._execute goes on to its return
ImageReturn ==
    /\ dt.pc = "streaming"
    /\ UNCHANGED <<fcVars, ragVars, mt, appVars>>
    /\ LET message == DeployMessage(dt)
       IN  dt' = [dt EXCEPT !.pc = "returned", !.n = 0,
                            !.choice = ChoiceWrites(message),
                            !.super_message = message,
                            !.message = ImageMessage(message)]

ImageNext(params, increments, limit) ==
    \/ \E p \in params : DeployStart(p)
    \/ \E chunk \in increments : DeployChunk(chunk, limit)
    \/ DeployFail
    \/ ImageReturn

(***************************************************************************)
(* MCPTool                                                                 *)
(***************************************************************************)
McpParams == [js : BOOLEAN, arguments : ArgDicts, id : {"call_1", "call_2"}]

\* what call_tool answers
McpContents == {<<>>, <<"x">>, <<"y">>}

\* json.loads returns (it raises on a payload that is not JSON)
JsonLoads_lenient(p) == TRUE

JsonLoads(p) == p.js

NoCall == [name |-> "", tool_args |-> <<>>]

McpIdle ==
    [pc |-> "idle", params |-> [js |-> TRUE, arguments |-> <<>>, id |-> "call_1"],
     call |-> NoCall, stage |-> <<>>, result |-> <<>>]

\* _execute up to its suspension at `await self._client.call_tool`
McpStart(p) ==
    /\ mt.pc \in {"idle", "returned", "raised"}
    /\ ~p.js => p.arguments = <<>>
    /\ mt' = IF ~JsonLoads(p)
             THEN [McpIdle EXCEPT !.pc = "raised", !.params = p]
             ELSE [McpIdle EXCEPT !.pc = "call_tool", !.params = p,
                                  !.call = [name |-> "mcp_tool",
                                            tool_args |-> p.arguments]]
    /\ UNCHANGED <<fcVars, ragVars, dt, appVars>>

\* call_tool answers: the content is appended to the stage and returned
McpAnswer(content) ==
    /\ mt.pc = "call_tool"
    /\ mt' = [mt EXCEPT !.pc = "returned", !.stage = Append(@, content),
                        !.result = content]
    /\ UNCHANGED <<fcVars, ragVars, dt, appVars>>

\* call_tool raises
McpFail ==
    /\ mt.pc = "call_tool"
    /\ mt' = [mt EXCEPT !.pc = "raised"]
    /\ UNCHANGED <<fcVars, ragVars, dt, appVars>>

McpNext(params, contents) ==
    \/ \E p \in params : McpStart(p)
    \/ \E content \in contents : McpAnswer(content)
    \/ McpFail


(***************************************************************************)
(* GeneralPurposeAgentApplication                                          *)
(*                                                                         *)
(* A tool list is a record: n its length, set the _create_tools run that   *)
(* built it (the request slot of the run; 0: the list of __init__), and    *)
(* document_cache the DocumentCache instance its RagTool holds.            *)
(***************************************************************************)
Reqs == 1 .. MaxRequests

\* self.tools = []
NoTools == [n |-> 0, set |-> 0, document_cache |-> 0]

\* not self.tools: a list is falsy when it is empty
NoToolsYet(tools) == tools.n = 0

\* lines 47-58 of _create_tools: the list with ImageGenerationTool,
\* FileContentExtractionTool and RagTool over a DocumentCache of its own
LocalTools(r) == [n |-> 3, set |-> r, document_cache |-> r]

\* lines 69-70: one MCPTool per listed tool model
WithMcpTools(tools, k) == [tools EXCEPT !.n = @ + k]

ReqIdle == [pc |-> "idle", tools |-> NoTools, agent_tools |-> NoTools]

\* chat_completion up to its first suspension: the test of self.tools and
\* either _create_tools up to `await MCPClient.create` or the agent's creation
\* up to `await agent.handle_request`
ChatCompletion(r) ==
    /\ rq[r].pc = "idle"
    /\ IF NoToolsYet(app.tools)
       THEN rq' = [rq EXCEPT ![r].pc = "create", ![r].tools = LocalTools(r)]
       ELSE rq' = [rq EXCEPT ![r].pc = "handle", ![r].agent_tools = app.tools]
    /\ UNCHANGED <<app, fcVars, ragVars, dt, mt>>

\* MCPClient.create answers; get_tools is awaited
ClientCreated(r) ==
    /\ rq[r].pc = "create"
    /\ rq' = [rq EXCEPT ![r].pc = "get_tools"]
    /\ UNCHANGED <<app, fcVars, ragVars, dt, mt>>

\* get_tools answers k tool models: _create_tools returns, self.tools is
\* assigned and the agent is created over self.tools
ToolsListed(r, k) ==
    /\ rq[r].pc = "get_tools"
    /\ LET tools == WithMcpTools(rq[r].tools, k)
       IN  /\ app' = [tools |-> tools, created |-> Append(app.created, tools)]
           /\ rq' = [rq EXCEPT ![r].pc = "handle", ![r].tools = tools,
                               ![r].agent_tools = tools]
    /\ UNCHANGED <<fcVars, ragVars, dt, mt>>

\* MCPClient.create or get_tools raises: chat_completion fails, self.tools
\* stays as it is
CreateFails(r) ==
    /\ rq[r].pc \in {"create", "get_tools"}
    /\ rq' = [rq EXCEPT ![r].pc = "failed"]
    /\ UNCHANGED <<app, fcVars, ragVars, dt, mt>>

\* agent.handle_request completes
RequestHandled(r) ==
    /\ rq[r].pc = "handle"
    /\ rq' = [rq EXCEPT ![r].pc = "done"]
    /\ UNCHANGED <<app, fcVars, ragVars, dt, mt>>

\* the agent of request r, while it handles the request, calls the RagTool of
\* the tool list it was created with (tools=self.tools)
AgentRagStart(r, p, text) ==
    /\ rq[r].pc = "handle"
    /\ p.self = rq[r].agent_tools.document_cache
    /\ RagStart(r, p, text)

\* handle_request completes once the agent's tool call has ended
AgentDone(r) ==
    /\ rc[r].pc # "generate"
    /\ RequestHandled(r)

\* the requests reqs, each with an agent that makes RagTool calls
AgentNext(reqs, params, texts, increments, limit) ==
    \/ \E r \in reqs : ChatCompletion(r)
    \/ \E r \in reqs : ClientCreated(r)
    \/ \E r \in reqs, k \in 0 .. MaxMcpTools : ToolsListed(r, k)
    \/ \E r \in reqs : CreateFails(r)
    \/ \E r \in reqs : AgentDone(r)
    \/ \E r \in reqs, p \in params, text \in texts : AgentRagStart(r, p, text)
    \/ \E r \in reqs, chunk \in increments : RagChunk(r, chunk, limit)
    \/ \E r \in reqs : RagReturn(r)
    \/ \E r \in reqs : RagFail(r)
    \/ CacheEvict

AppNext ==
    \/ \E r \in Reqs : ChatCompletion(r)
    \/ \E r \in Reqs : ClientCreated(r)
    \/ \E r \in Reqs, k \in 0 .. MaxMcpTools : ToolsListed(r, k)
    \/ \E r \in Reqs : CreateFails(r)
    \/ \E r \in Reqs : RequestHandled(r)


(***************************************************************************)
(* Specifications                                                          *)
(***************************************************************************)
\* no request received and no tool call made yet; one RagTool call slot
Init ==
    /\ fc_pc = "idle"
    /\ fc_args = [js |-> TRUE, file_url |-> <<"a">>, page |-> IntPage(1)]
    /\ fc_extracted = NoText
    /\ fc_stage = <<>>
    /\ fc_result = NoText
    /\ document_cache = [self \in Reqs |-> <<>>]
    /\ rc = [c \in {1} |-> RagIdle]
    /\ dt = DeployIdle
    /\ mt = McpIdle
    /\ app = [tools |-> NoTools, created |-> <<>>]
    /\ rq = [r \in Reqs |-> ReqIdle]

\* the same with two RagTool call slots
InitConc ==
    /\ fc_pc = "idle"
    /\ fc_args = [js |-> TRUE, file_url |-> <<"a">>, page |-> IntPage(1)]
    /\ fc_extracted = NoText
    /\ fc_stage = <<>>
    /\ fc_result = NoText
    /\ document_cache = [self \in Reqs |-> <<>>]
    /\ rc = [c \in {1, 2} |-> RagIdle]
    /\ dt = DeployIdle
    /\ mt = McpIdle
    /\ app = [tools |-> NoTools, created |-> <<>>]
    /\ rq = [r \in Reqs |-> ReqIdle]

\* FileContentExtractionTool calls
SpecFile ==
    /\ Init
    /\ [][FileCall]_vars

\* ImageGenerationTool calls
ImageIncrements == {chunk \in DeployIncrements : chunk.content # <<"y">>}
SpecImage ==
    /\ Init
    /\ [][ImageNext(DeployParams, ImageIncrements, MaxIncrements)]_vars

\* DeploymentTool calls (through ImageGenerationTool) over streams whose text
\* increments differ
StreamIncrements ==
    {chunk \in DeployIncrements :
        \A i \in DOMAIN chunk.attachments : chunk.attachments[i].type # "image/jpeg"}
SpecDeploy ==
    /\ Init
    /\ [][ImageNext(DeployParams, StreamIncrements, MaxIncrements)]_vars

\* RagTool calls one after the other
SpecRag ==
    /\ Init
    /\ [][RagNext({1}, RagParams, RagTexts, RagIncrements, MaxIncrements)]_vars

\* concurrent chat_completion requests of one process
SpecApp ==
    /\ Init
    /\ [][AppNext]_vars

\* two RagTool calls in flight on one event loop
ConcParams == {p \in RagParams : p.js /\ p.request = 2}
ConcTexts == {NoneText, Text(<<1, 0, 2>>)}
ConcIncrements == {chunk \in RagIncrements : chunk.content # <<>>}
SpecRagConc ==
    /\ InitConc
    /\ [][RagNext({1, 2}, ConcParams, ConcTexts, ConcIncrements, 1)]_vars

\* calls of the four tools, each with a payload that parses and one that
\* does not
ParseFileArgs == {args \in FileArgs : args.file_url = <<"a">> /\ args.page = IntPage(1)}
ParseRagParams ==
    {p \in RagParams : p.js => (p.conversation_id = <<"a">> /\ p.file_url = <<"a">>
                                   /\ p.request = 2)}
ParseDeployParams ==
    {p \in DeployParams : p.id = "call_1" /\ "size" \notin DOMAIN p.arguments}
ParseMcpParams ==
    {p \in McpParams : p.id = "call_1" /\ "prompt" \notin DOMAIN p.arguments}
ParseIncrements ==
    {chunk \in ImageIncrements :
        /\ chunk.choices
        /\ (chunk.content = <<>>) # (chunk.attachments = <<>>)
        /\ \A i \in DOMAIN chunk.attachments : chunk.attachments[i].type = "image/png"}
SpecParse ==
    /\ Init
    /\ [][\/ FileNext(ParseFileArgs, {DocText(5000)})
          \/ RagNext({1}, ParseRagParams, {NoneText, Text(<<1>>)}, ConcIncrements, 1)
          \/ ImageNext(ParseDeployParams, ParseIncrements, 1)
          \/ McpNext(ParseMcpParams, {<<"x">>})]_vars

\* two concurrent requests of one conversation, each with an agent that asks
\* the RagTool about the same file
AgentParams ==
    [self : Reqs, js : {TRUE}, conversation_id : {<<"a">>}, file_url : {<<"a">>},
     request : {2}]
SpecAppRag ==
    /\ InitConc
    /\ [][AgentNext({1, 2}, AgentParams, {NoneText, Text(<<1, 0, 2>>)},
                    ConcIncrements, 1)]_vars

(***************************************************************************)
(* Claims about FileContentExtractionTool                                  *)
(***************************************************************************)
\* ceil(L / 10000), from its definition
CeilPages(L) == CHOOSE t \in 0 .. L : t * 10000 >= L /\ (t - 1) * 10000 < L

\* the last call had a well-formed payload and an integer page (or none)
FileCalled == fc_pc # "idle" /\ fc_args.js /\ PageArg(fc_args).t = "int"
FilePage == PageArg(fc_args).n
\* the length of the extracted content (nothing extracted: 0)
FileLen == fc_extracted.to

\* C1: for extracted content of length L > 10,000 and a page p with
\* 1 <= p <= ceil(L/10000), _execute returns exactly the characters
\* [(p-1)*10000, min(p*10000, L)) followed by the footer
\* "Page #p. Total pages: ceil(L/10000)".
C1_PageIsSliceWithFooter ==
    (FileCalled /\ FileLen > 10000 /\ 1 <= FilePage /\ FilePage <= CeilPages(FileLen))
        => /\ fc_pc = "returned"
           /\ fc_result = [kind |-> "page", of |-> "doc",
                           from |-> (FilePage - 1) * 10000,
                           to |-> Min(FilePage * 10000, FileLen),
                           page |-> FilePage,
                           total |-> CeilPages(FileLen)]

\* C3: a page of 0 or less on content longer than 10,000 characters is
\* clamped to 1: the call returns what page=1 returns, the first 10,000
\* characters followed by the footer "Page #1. Total pages: T".
C3_NonPositivePageIsPageOne ==
    (FileCalled /\ FileLen > 10000 /\ FilePage < 1)
        => /\ fc_pc = "returned"
           /\ fc_result = [kind |-> "page", of |-> "doc", from |-> 0, to |-> 10000,
                           page |-> 1, total |-> CeilPages(FileLen)]

\* C4: for content of any length L and a page p > ceil(L/10000) the
\* result is the error text naming page p and the total ceil(L/10000).
C4_BeyondLastPageIsError ==
    (FileCalled /\ FilePage > CeilPages(FileLen))
        => /\ fc_pc = "returned"
           /\ fc_result = [kind |-> "nopage", from |-> 0, to |-> 0,
                           page |-> FilePage, total |-> CeilPages(FileLen)]

\* C11: a page argument that is not a number (a string, null) in a
\* well-formed argument object does not make _execute raise: the call returns
\* a textual result.
C11_NonNumericPageReturns ==
    (fc_pc # "idle" /\ fc_args.js /\ fc_args.page.t \in {"str", "null"})
        => fc_pc = "returned" /\ fc_result.kind # "none"


(***************************************************************************)
(* Claims about RagTool                                                    *)
(***************************************************************************)
Has(seq, x) == \E i \in DOMAIN seq : seq[i] = x
Distinct(seq) == \A i, j \in DOMAIN seq : seq[i] = seq[j] => i = j

\* the step in which the call of slot c runs from its start to its first
\* suspension point, return or raise
\* in a step that starts call c: the cache of the RagTool it is made on
OwnCache(c) == document_cache[rc'[c].params.self]

StartStep(c) == rc[c].pc \in {"idle", "returned", "raised"} /\ rc'[c] # rc[c]

\* C2: when the document has n < 3 chunks, the query for k = 3 neighbours
\* yields exactly n retrieved chunks, each existing chunk at most once, and
\* these are the chunks of the augmented prompt.
C2_FewerChunksThanAsked ==
    \A c \in DOMAIN rc :
        (Has(rc[c].ops, "search") /\ Len(rc[c].chunks) < 3)
            => /\ Len(rc[c].retrieved) = Len(rc[c].chunks)
               /\ Distinct(rc[c].retrieved)
               /\ rc[c].prompt.chunks = rc[c].retrieved

\* C5: a call whose (conversationId, fileUrl) pair has an entry in the cache,
\* stored by an earlier call for that pair, extracts no text, splits and
\* embeds no chunks, sets nothing in the cache and uses the stored
\* (index, chunks).
C5_HitReusesEntry ==
    [][\A c \in DOMAIN rc :
          (/\ StartStep(c)
           /\ rc'[c].params.js
           /\ rc'[c].key \in DOMAIN OwnCache(c)
           /\ OwnCache(c)[rc'[c].key].by =
                  <<rc'[c].params.conversation_id, rc'[c].params.file_url>>)
             => /\ ~Has(rc'[c].ops, "extract")
                /\ ~Has(rc'[c].ops, "split")
                /\ ~Has(rc'[c].ops, "encode_chunks")
                /\ ~Has(rc'[c].ops, "index_add")
                /\ ~Has(rc'[c].ops, "set")
                /\ rc'[c].index = OwnCache(c)[rc'[c].key].index
                /\ rc'[c].chunks = OwnCache(c)[rc'[c].key].chunks
                /\ document_cache' = document_cache]_vars

\* a call that found the entry of its own pair and went on to the generation
C5_Witness ==
    \E c \in DOMAIN rc :
        /\ rc[c].hit /\ rc[c].pc = "generate"
        /\ rc[c].read_by = <<rc[c].params.conversation_id, rc[c].params.file_url>>
        /\ rc[c].ops = <<"get", "encode_request", "search", "create">>

\* C6: two calls with different conversationIds and the same fileUrl build
\* different cache keys, and a call never reads an entry that a call of
\* another conversation wrote for the same fileUrl.
C6_ConversationsAreApart ==
    /\ \A c1, c2 \in DOMAIN rc :
          (/\ rc[c1].key # <<>> /\ rc[c2].key # <<>>
           /\ rc[c1].params.conversation_id # rc[c2].params.conversation_id
           /\ rc[c1].params.file_url = rc[c2].params.file_url)
             => rc[c1].key # rc[c2].key
    /\ \A c \in DOMAIN rc :
          (rc[c].hit /\ rc[c].read_by[2] = rc[c].params.file_url)
             => rc[c].read_by[1] = rc[c].params.conversation_id
    /\ \A a, b, u \in Ids(MaxIdLen) :
          a # b => cache_document_key(a, u) # cache_document_key(b, u)

\* both conversations are in flight on the same fileUrl, each after its own
\* build
C6_Witness ==
    /\ rc[1].pc = "generate" /\ rc[2].pc = "generate"
    /\ rc[1].params.conversation_id # rc[2].params.conversation_id
    /\ rc[1].params.file_url = rc[2].params.file_url
    /\ Has(rc[1].ops, "set") /\ Has(rc[2].ops, "set")

\* position i of the index holds the embedding of chunks[i]
Aligned(index, chunks) ==
    /\ Len(index.xb) = Len(chunks)
    /\ \A i \in DOMAIN chunks : index.xb[i] = <<chunks[i] % 3, chunks[i] \div 3>>

\* C7: in every cache entry, and in the (index, chunks) every call searches
\* (after a build or a hit), the index holds len(chunks) vectors and vector i
\* is the embedding of chunks[i]; no step changes an entry that stays in the
\* cache.
C7_IndexFollowsChunks ==
    /\ [](/\ \A self \in DOMAIN document_cache :
               \A k \in DOMAIN document_cache[self] :
                  Aligned(document_cache[self][k].index,
                          document_cache[self][k].chunks)
          /\ \A c \in DOMAIN rc :
               Has(rc[c].ops, "search") => Aligned(rc[c].index, rc[c].chunks))
    /\ [][\A self \in DOMAIN document_cache :
             \A k \in DOMAIN document_cache[self] \cap DOMAIN document_cache'[self] :
                document_cache'[self][k] = document_cache[self][k]]_vars

\* a call that hit an entry of several chunks that is still in the cache
C7_Witness ==
    /\ rc[1].hit /\ Len(rc[1].chunks) >= 2
    /\ rc[1].key \in DOMAIN document_cache[1]
    /\ document_cache[1][rc[1].key].chunks = rc[1].chunks

\* C8: on a miss whose extraction yields no text the call returns the error
\* text at once: nothing is split, embedded or indexed, the cache is left as
\* it was, no generation request is issued, and the key is still absent.
C8_NoTextIsAnErrorResult ==
    [][\A c \in DOMAIN rc :
          (/\ StartStep(c)
           /\ rc'[c].params.js
           /\ rc'[c].key \notin DOMAIN OwnCache(c)
           /\ rc'[c].text.kind = "none" \/ rc'[c].text.paras = <<>>)
             => /\ rc'[c].pc = "returned"
                /\ rc'[c].result = <<"Error: File content not found.">>
                /\ rc'[c].ops = <<"get", "extract">>
                /\ document_cache' = document_cache
                /\ rc'[c].key \notin DOMAIN document_cache'[rc'[c].params.self]]_vars

\* a call that returned the error for an empty text while another key is cached
C8_Witness ==
    /\ rc[1].pc = "returned" /\ rc[1].text = Text(<<>>)
    /\ rc[1].result = <<"Error: File content not found.">>
    /\ document_cache[1] # <<>>

(***************************************************************************)
(* Claims about ImageGenerationTool                                        *)
(***************************************************************************)
\* C9: whenever the base step produced no text, whatever attachments it
\* produced (none included), the content of the returned result is the
\* confirmation sentence.
C9_NoTextGivesConfirmation ==
    (dt.pc = "returned" /\ dt.content = <<>>)
        => dt.message.content =
             <<"The image has been successfully generated according to request and shown to user!">>

\* the image references for a list of attachments: one per image/png or
\* image/jpeg attachment, in the order of the list
RECURSIVE InlineRefs(_)
InlineRefs(atts) ==
    IF atts = <<>> THEN <<>>
    ELSE (IF Head(atts).type = "image/png" \/ Head(atts).type = "image/jpeg"
          THEN <<<<"![image](", Head(atts).url, ")">>>>
          ELSE <<>>) \o InlineRefs(Tail(atts))

\* C10: the final-answer sink receives exactly one image reference per
\* image/png or image/jpeg attachment of the base result, in attachment order,
\* and none for any other attachment; every attachment of the base result is
\* in the attachment list of the returned result.
C10_OnlyPngAndJpegAreInlined ==
    /\ dt.pc = "returned"
          => /\ dt.choice = InlineRefs(dt.attachments)
             /\ dt.message.attachments = dt.attachments
    /\ dt.pc # "returned" => dt.choice = <<>>

\* a gif and a png came: the png alone is inlined, and the result still
\* holds the two
C10_Witness ==
    /\ dt.pc = "returned"
    /\ Len(dt.attachments) = 2
    /\ dt.attachments[1].type = "image/gif"
    /\ dt.attachments[2].type = "image/png"
    /\ dt.choice = <<<<"![image](", "files/a.png", ")">>>>
    /\ Len(dt.message.attachments) = 2

(***************************************************************************)
(* Claims about GeneralPurposeAgentApplication                             *)
(***************************************************************************)
Dispatching(r) == rq[r].pc \in {"handle", "done"}

\* C12: in every interleaving of concurrent chat_completion requests
\* _create_tools completes at most once, and all requests are handled with
\* the same tool instances and the same DocumentCache.
C12_ToolSetCreatedOnce ==
    /\ Len(app.created) <= 1
    /\ \A r1, r2 \in Reqs :
          (Dispatching(r1) /\ Dispatching(r2))
              => /\ rq[r1].agent_tools.set = rq[r2].agent_tools.set
                 /\ rq[r1].agent_tools.document_cache
                      = rq[r2].agent_tools.document_cache


(***************************************************************************)
(* Claims about DeploymentTool                                             *)
(***************************************************************************)
\* the text this call has appended to the stage, in write order
RECURSIVE StageText(_)
StageText(stage) ==
    IF stage = <<>> THEN <<>>
    ELSE (IF Head(stage).t = "content" THEN Head(stage).text ELSE <<>>)
             \o StageText(Tail(stage))

\* the attachments this call has added to the stage, in write order
RECURSIVE StageAttachments(_)
StageAttachments(stage) ==
    IF stage = <<>> THEN <<>>
    ELSE (IF Head(stage).t = "attachment" THEN <<Head(stage).attachment>> ELSE <<>>)
             \o StageAttachments(Tail(stage))

\* C13: at every point of consuming the stream the result buffer is the
\* concatenation, in arrival order, of the text this call has appended to the
\* stage, and the attachment list is the sequence of attachments it has added
\* to the stage; on completion the one Message returned has role tool, that
\* content, that attachment list and the id of the originating tool call.
C13_BufferMirrorsStage ==
    /\ dt.content = StageText(dt.stage)
    /\ dt.attachments = StageAttachments(dt.stage)
    /\ dt.pc = "returned"
         => dt.super_message = [role |-> "tool",
                                content |-> StageText(dt.stage),
                                attachments |-> StageAttachments(dt.stage),
                                tool_call_id |-> dt.params.id]
    /\ dt.pc # "returned" => dt.super_message = NoMessage

\* a call with id call_2 has returned after the increments "x" with a gif
\* and "y"
C13_Witness ==
    /\ dt.pc = "returned"
    /\ dt.params.id = "call_2"
    /\ dt.super_message.content = <<"x", "y">>
    /\ Len(dt.super_message.attachments) = 1
    /\ dt.stage[1].t = "content" /\ dt.stage[2].t = "attachment"
    /\ dt.stage[3].text = <<"y">>


\* C15: when the downstream stream fails after some increments have been
\* consumed, the call ends raised without a Message, the stage keeps exactly
\* what those increments wrote, in order, and the failed call writes nothing
\* more to the stage or the choice (a change of the stage after the failure
\* is the fresh stage of the next call).
C15_FailureKeepsStage ==
    [][/\ (dt.pc = "streaming" /\ dt'.pc = "raised")
            => /\ dt'.stage = dt.stage
               /\ dt'.content = dt.content
               /\ dt'.attachments = dt.attachments
               /\ dt'.super_message = NoMessage
               /\ dt'.message = NoMessage
               /\ dt'.choice = <<>>
       /\ (dt.pc = "raised" /\ dt' # dt)
            => /\ dt'.pc \in {"streaming", "raised"}
               /\ dt'.stage = <<>>
               /\ dt'.n = 0]_vars

\* the stream failed after the increments "x" with a png and "y"
C15_Witness ==
    /\ dt.pc = "raised"
    /\ dt.params.js
    /\ Len(dt.stage) = 3
    /\ StageText(dt.stage) = <<"x", "y">>
    /\ Len(StageAttachments(dt.stage)) = 1
    /\ dt.message = NoMessage

\* C16: the downstream request has one message, the user message whose
\* content is the value of the prompt argument (None when there is none), and
\* its configuration holds exactly the other arguments, each with its value;
\* prompt is not in the configuration.
C16_RequestCarriesPromptAndConfiguration ==
    (dt.pc \in {"streaming", "returned"} \/ (dt.pc = "raised" /\ dt.params.js))
        => LET arguments == dt.params.arguments
               request == dt.request
           IN  /\ Len(request.messages) = 1
               /\ request.messages[1].role = "user"
               /\ "prompt" \in DOMAIN arguments
                    => request.messages[1].content = arguments["prompt"]
               /\ "prompt" \notin DOMAIN arguments
                    => request.messages[1].content = "None"
               /\ DOMAIN request.configuration = DOMAIN arguments \ {"prompt"}
               /\ \A k \in DOMAIN request.configuration :
                     request.configuration[k] = arguments[k]

\* the request for the arguments {"prompt": "a cat", "size": "1024x1024"}
C16_Witness ==
    /\ dt.pc = "streaming"
    /\ dt.params.arguments = [prompt |-> "a cat", size |-> "1024x1024"]
    /\ dt.request.messages = <<[role |-> "user", content |-> "a cat"]>>
    /\ dt.request.configuration = [size |-> "1024x1024"]


(***************************************************************************)
(* Claims about all the tools                                              *)
(***************************************************************************)
\* a step in which a call with a payload that does not parse is made
ParseFailureStep ==
    \/ fcVars' # fcVars /\ ~fc_args'.js
    \/ \E c \in DOMAIN rc : rc'[c] # rc[c] /\ ~rc'[c].params.js
    \/ dt' # dt /\ ~dt'.params.js
    \/ mt' # mt /\ ~mt'.params.js

\* C14: for each of the tools, a call whose argument payload does not parse
\* ends raised before any effect: nothing is written to its stage or to the
\* choice, no extraction, cache, downstream or remote call is made, no result
\* is produced, and the document cache is as it was.
C14_ParseFailureHasNoEffect ==
    /\ [](/\ ~fc_args.js
              => /\ fc_pc = "raised"
                 /\ fc_stage = <<>>
                 /\ fc_extracted = NotExtracted
                 /\ fc_result = NoText
          /\ \A c \in DOMAIN rc :
                ~rc[c].params.js
                   => /\ rc[c].pc = "raised"
                      /\ rc[c].stage = <<>>
                      /\ rc[c].ops = <<>>
                      /\ rc[c].result = <<>>
          /\ ~dt.params.js
              => /\ dt.pc = "raised"
                 /\ dt.stage = <<>>
                 /\ dt.choice = <<>>
                 /\ dt.request = NoRequest
                 /\ dt.message = NoMessage
          /\ ~mt.params.js
              => /\ mt.pc = "raised"
                 /\ mt.stage = <<>>
                 /\ mt.call = NoCall
                 /\ mt.result = <<>>)
    /\ [][ParseFailureStep => document_cache' = document_cache]_vars

\* each of the four tools has failed on a payload that does not parse, the
\* RagTool one while the cache holds an entry
C14_Witness ==
    /\ fc_pc = "raised" /\ ~fc_args.js
    /\ rc[1].pc = "raised" /\ ~rc[1].params.js
    /\ dt.pc = "raised" /\ ~dt.params.js
    /\ mt.pc = "raised" /\ ~mt.params.js
    /\ document_cache[1] # <<>>


(***************************************************************************)
(* Claims about concurrent RagTool calls                                   *)
(***************************************************************************)
\* call c is in flight after it built and set the entry of its key, and the
\* entry is still in the cache it was set in
BuiltAndCached(c) ==
    /\ rc[c].pc = "generate"
    /\ Has(rc[c].ops, "set")
    /\ rc[c].key \in DOMAIN document_cache[rc[c].params.self]

\* C17: of the concurrent RagTool calls for one cache key whose extraction
\* yields text at most one builds and sets the entry while it is not evicted:
\* a call that starts while another call is in flight that built the entry
\* of the same key, the entry not evicted, sees a cache hit and builds and
\* sets nothing; and a build is never suspended halfway (a call in flight
\* that extracted has also set).
C17_OneBuildPerKey ==
    /\ [](\A c \in DOMAIN rc :
             (rc[c].pc = "generate" /\ Has(rc[c].ops, "extract"))
                => Has(rc[c].ops, "set"))
    /\ [][\A c, c2 \in DOMAIN rc :
             (/\ c # c2
              /\ StartStep(c)
              /\ rc'[c].params.js
              /\ BuiltAndCached(c2)
              /\ rc'[c].key = rc[c2].key)
                => /\ rc'[c].hit
                   /\ ~Has(rc'[c].ops, "extract")
                   /\ ~Has(rc'[c].ops, "index_add")
                   /\ ~Has(rc'[c].ops, "set")
                   /\ document_cache' = document_cache]_vars


====
